---- MODULE Spec2Model ----
(***************************************************************************)
(* Model of the pup-exporter service: the row repair and merge engine of   *)
(* app/services/export_service.py and the sync / export job of             *)
(* app/services/job_service.py with its three triggers.                    *)
(*                                                                         *)
(* Text is modelled as a sequence of one-character strings, so that        *)
(* strip(), the regular expressions and string comparison are computed.    *)
(* Python index k of a list is index k+1 here.                             *)
(***************************************************************************)
EXTENDS Integers, Sequences, FiniteSets, TLC

VARIABLES
    rawRow,      \* _repair_template_row: the raw csv row handed to the call
    fixed,       \* _repair_template_row: its return value, <<>> (None) or <<row>>
    repairPc,    \* "call" before the call, "ret" after it
    \* generate_output_csv, the data it handles
    fileRows,        \* the data rows of the cached puplookup.csv, after its header
    rowIdx,          \* _read_template_rows: how many rows the loop has taken
    repaired,        \* _read_template_rows: the list it builds and returns
    vpsdb,           \* the list that _read_vpsdb returns
    ctx_by_vpsid,    \* generate_output_csv: the result of _build_indexes
    master_by_vpsid, \* generate_output_csv: the result of _build_master_map
    out_rows,        \* generate_output_csv: the result of _generate_rows
    mergePc,         \* where generate_output_csv is: read, index, generate, done
    \* the service: the remote site, the three directories, the threads
    remote,      \* the remote site: [epoch, pup, vps], what its three urls serve
    pupFile,     \* data_dir/puplookup.csv: [ver, kind], kind "absent" when missing
    vpsFile,     \* data_dir/vpsdb.json: [ver, kind]
    tsFile,      \* data_dir/lastUpdated.json: [kind, val], kind absent, num or empty
    outId,       \* the file at output_dir/output_filename, 0 when there is none
    files,       \* the files of output_dir and backups_dir: file id -> chunks written
    backups,     \* backups_dir: the file ids in it, oldest modification first
    pc,          \* per thread: where it is in run_sync_and_export
    loc,         \* per thread: the locals of run_sync_and_export and its callees
    result,      \* per thread: how its run_sync_and_export ended
    request,     \* the query parameters of the /export request in progress
    response,    \* the response of /export that is being delivered
    booted,      \* create_app has returned
    used,        \* how many removals of cache files and how many triggers there were
    \* BackupService on its own: one output file and its backups directory
    output_mtime, \* st_mtime of the output file, 0 when there is none
    backups_dir,  \* the backups: second in the name -> st_mtime of the file
    limit,        \* BackupService.max_backups
    clock_s,      \* the wall clock in whole seconds, as strftime prints it
    clock_m,      \* the clock that stamps st_mtime
    rotatePc,     \* where rotate_if_exists is: idle, moved
    pruneLog,     \* the names logged with "Pruning old backup"
    \* SyncService._download_all on its own, one call at a time
    cache,        \* data_dir: which call fetched each data file, the timestamp file
    dlCall        \* the call of _download_all: its number, where it is, its locals

repairVars == <<rawRow, fixed, repairPc>>
mergeVars == <<fileRows, rowIdx, repaired, vpsdb, ctx_by_vpsid, master_by_vpsid,
               out_rows, mergePc>>

jobVars == <<remote, pupFile, vpsFile, tsFile, outId, files, backups, pc, loc, result,
             request, response, booted, used>>

rotateVars == <<output_mtime, backups_dir, limit, clock_s, clock_m, rotatePc, pruneLog>>

downloadVars == <<cache, dlCall>>

vars == <<repairVars, mergeVars, jobVars, rotateVars, downloadVars>>

----------------------------------------------------------------------------
(* Characters and the str methods the code uses.                           *)

Lower == {"a","b","c","d","e","f","g","h","i","j","k","l","m",
          "n","o","p","q","r","s","t","u","v","w","x","y","z"}
Upper == {"A","B","C","D","E","F","G","H","I","J","K","L","M",
          "N","O","P","Q","R","S","T","U","V","W","X","Y","Z"}
Digits == {"0","1","2","3","4","5","6","7","8","9"}
Whitespace == {" ", "\t", "\n", "\r", "\f"}

\* [A-Za-z0-9_-]
IdChars == Lower \cup Upper \cup Digits \cup {"_", "-"}

RECURSIVE LStrip(_)
LStrip(s) ==
    IF s # <<>> /\ Head(s) \in Whitespace THEN LStrip(Tail(s)) ELSE s

RECURSIVE RStrip(_)
RStrip(s) ==
    IF s # <<>> /\ s[Len(s)] \in Whitespace
    THEN RStrip(SubSeq(s, 1, Len(s) - 1))
    ELSE s

Strip(s) == RStrip(LStrip(s))

AllIn(s, chars) == \A i \in 1..Len(s) : s[i] \in chars

\* re.match(r"^C{n,}$" or r"^C{n}$", s): in Python "$" also matches just
\* before a newline that ends the string.
MatchClass(s, chars, lo, exact) ==
    LET body == IF s # <<>> /\ s[Len(s)] = "\n"
                THEN {s, SubSeq(s, 1, Len(s) - 1)}
                ELSE {s}
    IN  \E b \in body :
            /\ AllIn(b, chars)
            /\ IF exact THEN Len(b) = lo ELSE Len(b) >= lo

YearLen == 4
MinIdLen == 8

YEAR_RE(s) == MatchClass(s, Digits, YearLen, TRUE)
VPS_ID_RE(s) == MatchClass(s, IdChars, MinIdLen, FALSE)

----------------------------------------------------------------------------
(* Row Repair.                                                             *)

BASE_COLUMNS ==
    <<"GameFileName","GameName","Manufact","GameYear","NumPlayers","GameType",
      "Category","GameTheme","WebLinkURL","IPDBNum","AltRunMode","DesignedBy",
      "Author","GAMEVER","Rom","Tags","VPS-ID">>

NumBase == Len(BASE_COLUMNS)

\* the position (1-based) of a column of BASE_COLUMNS
BaseIdx(c) == CHOOSE i \in 1..NumBase : BASE_COLUMNS[i] = c

\* Case A of _repair_template_row: 18 columns because Manufact was split.
RepairCaseA(row) ==
    IF /\ Len(row) = NumBase + 1
       /\ ~YEAR_RE(Strip(row[4]))
       /\ YEAR_RE(Strip(row[5]))
    THEN [i \in 1..NumBase |->
            IF i < 3 THEN row[i]
            ELSE IF i = 3 THEN RStrip(row[3]) \o <<",", " ">> \o LStrip(row[4])
            ELSE row[i + 1]]
    ELSE row

\* shifted = (shifted + " " + tok).strip() if shifted else tok
JoinTag(shifted, tok) ==
    IF shifted # <<>> THEN Strip(shifted \o <<" ">> \o tok) ELSE tok

\* the loop over extras[:-1], taken from the last extra to the first
RECURSIVE FoldExtrasLastFirst(_, _)
FoldExtrasLastFirst(shifted, toks) ==
    IF toks = <<>> THEN shifted
    ELSE LET tok == Strip(toks[Len(toks)])
         IN  FoldExtrasLastFirst(IF tok # <<>> THEN JoinTag(shifted, tok) ELSE shifted,
                                 SubSeq(toks, 1, Len(toks) - 1))

\* for tok in extras[:-1]: the trimmed tok, when not empty, is joined on
RECURSIVE FoldExtras(_, _)
FoldExtras(shifted, toks) ==
    IF toks = <<>> THEN shifted
    ELSE LET tok == Strip(Head(toks))
         IN  FoldExtras(IF tok # <<>> THEN JoinTag(shifted, tok) ELSE shifted,
                        Tail(toks))

\* Case B of _repair_template_row: fold the extras into Tags, the last extra
\* becomes the VPS-ID; <<>> when the row is rejected.
RepairCaseB(row) ==
    IF Len(row) > NumBase
    THEN LET extras == SubSeq(row, NumBase + 1, Len(row))
             base   == SubSeq(row, 1, NumBase)
             cand   == Strip(extras[Len(extras)])
             old16  == Strip(base[17])
             tags0  == Strip(base[16])
             tags1  == IF old16 # <<>> /\ ~VPS_ID_RE(old16)
                       THEN JoinTag(tags0, old16)
                       ELSE tags0
             tags2  == FoldExtras(tags1, SubSeq(extras, 1, Len(extras) - 1))
         IN  IF VPS_ID_RE(cand)
             THEN << [base EXCEPT ![16] = tags2, ![17] = cand] >>
             ELSE <<>>
    ELSE << row >>

\* The last two checks of _repair_template_row.
RepairFinalCheck(row) ==
    IF Len(row) # NumBase THEN <<>>
    ELSE IF ~VPS_ID_RE(Strip(row[17])) THEN <<>>
    ELSE << row >>

\* _repair_template_row: <<>> is None, <<r>> is the returned row r.
RepairTemplateRow(row) ==
    IF Len(row) < NumBase THEN <<>>
    ELSE LET b == RepairCaseB(RepairCaseA(row))
         IN  IF b = <<>> THEN <<>> ELSE RepairFinalCheck(b[1])

----------------------------------------------------------------------------
(* Raw rows handed to Row Repair.                                          *)

MaxRowLen == 19

TxtFile  == <<"f">>
TxtName  == <<"G","a","m","e">>
TxtManu  == <<"A","c","m","e">>
TxtInc   == <<" ","I","n","c">>
TxtYear  == <<"1","9","9","9">>
TxtFour  == <<"4">>
TxtEmpty == <<>>
TxtBlank == <<" ">>
TxtTag   == <<"V","R">>
TxtId    == <<"a","b","c","d","1","2","3","4">>
TxtIdPad == <<" ","a","b","_","d","-","2","3","Z"," ">>
TxtShort == <<"a","b","c","1","2","3","4">>
TxtNotId == <<"a","b","c","d"," ","2","3","4","5">>

\* what the fields from Tags on (Python index 15 and up) are drawn from
TailPool == {TxtEmpty, TxtBlank, TxtTag, TxtId, TxtIdPad, TxtShort, TxtNotId}

\* the fields at Python index 3 and 4 (GameYear, NumPlayers, or the halves of
\* a split Manufact)
YearPairs == { <<TxtYear, TxtFour>>, <<TxtInc, TxtYear>>, <<TxtInc, TxtFour>> }

\* the letter that fills the field at position i, 6 <= i <= 15
MidLetters == <<"p","q","r","s","t","u","v","w","x","y">>

MkRow(n, yp, tail) ==
    [i \in 1..n |->
        IF i = 1 THEN TxtFile
        ELSE IF i = 2 THEN TxtName
        ELSE IF i = 3 THEN TxtManu
        ELSE IF i = 4 THEN yp[1]
        ELSE IF i = 5 THEN yp[2]
        ELSE IF i >= 16 THEN tail[i]
        ELSE << MidLetters[i - 5] >>]

\* what the fields from Tags on are drawn from in the longest rows
LongPool == {TxtEmpty, TxtTag, TxtShort, TxtIdPad}

\* the rows of MaxRowLen + 1 fields: two extras before the last one
LongRows ==
    { MkRow(MaxRowLen + 1, yp, tail) :
        yp \in YearPairs, tail \in [16..(MaxRowLen + 1) -> LongPool] }

RawRows ==
    { <<>> } \cup LongRows \cup
    UNION { { MkRow(n, yp, tail) : yp \in YearPairs, tail \in [16..n -> TailPool] }
            : n \in (NumBase - 1)..MaxRowLen }

RepairInit ==
    /\ rawRow \in RawRows
    /\ fixed = <<>>
    /\ repairPc = "call"

\* no call of _repair_template_row on its own
RepairIdle ==
    /\ rawRow = <<>>
    /\ fixed = <<>>
    /\ repairPc = "off"

\* no removal of a cache file and no trigger so far
NoneUsed == [removals |-> 0, triggers |-> 0]

\* the service is not running
JobIdle ==
    /\ remote = [epoch |-> 0, pup |-> "absent", vps |-> "absent"]
    /\ pupFile = [ver |-> 0, kind |-> "absent"]
    /\ vpsFile = [ver |-> 0, kind |-> "absent"]
    /\ tsFile = [kind |-> "absent", val |-> 0]
    /\ outId = 0
    /\ files = << >>
    /\ backups = <<>>
    /\ pc = << >>
    /\ loc = << >>
    /\ result = << >>
    /\ request = [api |-> FALSE, download |-> FALSE]
    /\ response = [status |-> 0, body |-> "none"]
    /\ booted = FALSE
    /\ used = NoneUsed

\* generate_output_csv is not running
MergeIdle ==
    /\ fileRows = <<>>
    /\ rowIdx = 0
    /\ repaired = <<>>
    /\ vpsdb = <<>>
    /\ ctx_by_vpsid = << >>
    /\ master_by_vpsid = << >>
    /\ out_rows = <<>>
    /\ mergePc = "off"

\* no BackupService on its own
RotateIdle ==
    /\ output_mtime = 0
    /\ backups_dir = << >>
    /\ limit = 0
    /\ clock_s = 0
    /\ clock_m = 0
    /\ rotatePc = "off"
    /\ pruneLog = {}

\* no file in data_dir
EmptyCache == [pup |-> 0, vps |-> 0, ts |-> [kind |-> "absent", val |-> 0, by |-> 0]]

\* no call of _download_all on its own
DownloadIdle ==
    /\ cache = EmptyCache
    /\ dlCall = [id |-> 0, at |-> "off"]

\* the call fixed = _repair_template_row(row)
RepairCall ==
    /\ repairPc = "call"
    /\ fixed' = RepairTemplateRow(rawRow)
    /\ repairPc' = "ret"
    /\ UNCHANGED <<rawRow, mergeVars, jobVars, rotateVars, downloadVars>>

InitRepair == RepairInit /\ MergeIdle /\ JobIdle /\ RotateIdle /\ DownloadIdle

SpecRepair == InitRepair /\ [][RepairCall]_vars

----------------------------------------------------------------------------
(* Claims about Row Repair, under SpecRepair.                              *)

\* C1: whenever _repair_template_row returns a row, the row has exactly 17
\* fields and the value stored at index 16 (here 17) matches the identifier
\* pattern ^[A-Za-z0-9_-]{8,}$.
C1_ReturnedRowHasValidId ==
    (repairPc = "ret" /\ fixed # <<>>) =>
        /\ Len(fixed[1]) = NumBase
        /\ VPS_ID_RE(fixed[1][17])


----------------------------------------------------------------------------
(* More str methods: comparison, lower(), "in", split, join.               *)

\* the printable ASCII characters in code point order (32..126); "grave"
\* stands for the grave accent (code point 96)
AsciiOrder ==
    <<" ","!","\"","#","$","%","&","'","(",")","*","+",",","-",".","/",
      "0","1","2","3","4","5","6","7","8","9",":",";","<","=",">","?","@",
      "A","B","C","D","E","F","G","H","I","J","K","L","M","N","O","P","Q",
      "R","S","T","U","V","W","X","Y","Z","[","\\","]","^","_","grave",
      "a","b","c","d","e","f","g","h","i","j","k","l","m","n","o","p","q",
      "r","s","t","u","v","w","x","y","z","{","|","}","~">>

\* ord(c)
Ord(c) ==
    IF c = "\t" THEN 9
    ELSE IF c = "\n" THEN 10
    ELSE IF c = "\f" THEN 12
    ELSE IF c = "\r" THEN 13
    ELSE (CHOOSE i \in 1..Len(AsciiOrder) : AsciiOrder[i] = c) + 31

\* a < b on str (by code point, a proper prefix is smaller)
RECURSIVE StrLess(_, _)
StrLess(a, b) ==
    IF b = <<>> THEN FALSE
    ELSE IF a = <<>> THEN TRUE
    ELSE IF Head(a) = Head(b) THEN StrLess(Tail(a), Tail(b))
    ELSE Ord(Head(a)) < Ord(Head(b))

UpperToLower == Ord("a") - Ord("A")

LowerChar(c) ==
    IF c \in Upper THEN AsciiOrder[Ord(c) + UpperToLower - 31] ELSE c

\* s.lower()
StrLower(s) == [i \in 1..Len(s) |-> LowerChar(s[i])]

\* s.startswith(p) at offset i (1-based)
MatchAt(s, p, i) ==
    /\ i + Len(p) - 1 <= Len(s)
    /\ \A j \in 1..Len(p) : s[i + j - 1] = p[j]

\* s.find(p) + 1, or 0 when p is not in s
Find(s, p) ==
    LET hits == {i \in 1..(Len(s) + 1) : MatchAt(s, p, i)}
    IN  IF hits = {} THEN 0 ELSE CHOOSE i \in hits : \A j \in hits : i <= j

\* p in s
Contains(s, p) == Find(s, p) # 0

\* s.split(p, 1)[0]
SplitFirst(s, p) ==
    IF Find(s, p) = 0 THEN s ELSE SubSeq(s, 1, Find(s, p) - 1)

\* s.replace(a, b) for one-character a
ReplaceChar(s, a, b) == [i \in 1..Len(s) |-> IF s[i] = a THEN b ELSE s[i]]

\* sep.join(parts)
RECURSIVE Join(_, _)
Join(sep, parts) ==
    IF parts = <<>> THEN <<>>
    ELSE IF Len(parts) = 1 THEN parts[1]
    ELSE parts[1] \o sep \o Join(sep, Tail(parts))

DigitSeq == <<"0","1","2","3","4","5","6","7","8","9">>

\* str(n) for an int n
RECURSIVE NatStr(_)
NatStr(n) ==
    IF n < 10 THEN << DigitSeq[n + 1] >>
    ELSE NatStr(n \div 10) \o << DigitSeq[(n % 10) + 1] >>

IntStr(n) == IF n < 0 THEN <<"-">> \o NatStr(-n) ELSE NatStr(n)

CommaSpace == <<",", " ">>

----------------------------------------------------------------------------
(* JSON values of vpsdb.json, tagged by their Python type.                 *)

JNull == [t |-> "null"]
JStr(s) == [t |-> "str", v |-> s]
JNum(n) == [t |-> "num", v |-> n]
JList(l) == [t |-> "list", v |-> l]
JObj(r) == [t |-> "obj", v |-> r]

\* bool(j)
Truthy(j) ==
    CASE j.t = "null" -> FALSE
      [] j.t = "str"  -> j.v # <<>>
      [] j.t = "num"  -> j.v # 0
      [] j.t = "list" -> j.v # <<>>
      [] j.t = "obj"  -> TRUE

\* (j or ""), for a value that is a str or null
OrEmpty(j) == IF j.t = "str" THEN j.v ELSE <<>>

\* the str elements of a list, in order
RECURSIVE StrItems(_)
StrItems(l) ==
    IF l = <<>> THEN <<>>
    ELSE (IF Head(l).t = "str" THEN << Head(l).v >> ELSE <<>>) \o StrItems(Tail(l))


----------------------------------------------------------------------------
(* Small helpers of export_service.py.                                     *)

TxtIpdbOrg == <<"i","p","d","b",".","o","r","g">>
TxtIdEq == <<"i","d","=">>

Placeholders ==
    { <<"n","o","t"," ","a","v","a","i","l","a","b","l","e">>,
      <<"n","/","a">>, <<"n","a">>, <<"n","o","n","e">> }

\* _norm_weblink
NormWeblink(url) ==
    IF url = <<>> THEN <<>>
    ELSE LET u == Strip(url)
         IN  IF StrLower(u) \in Placeholders THEN <<>>
             ELSE IF ~Contains(StrLower(u), TxtIpdbOrg) THEN <<>>
             ELSE u

\* the longest run of digits of s that starts at position i
RECURSIVE DigitRun(_, _)
DigitRun(s, i) ==
    IF i <= Len(s) /\ s[i] \in Digits THEN << s[i] >> \o DigitRun(s, i + 1) ELSE <<>>

\* _parse_ipdb_num: re.search(r"(?:id=|machine\.cgi\?id=)(\d+)", url); the
\* second alternative ends in the first, so the leftmost match is the first
\* "id=" that a digit follows.
ParseIpdbNum(url) ==
    LET hits == {i \in 1..Len(url) :
                    MatchAt(url, TxtIdEq, i) /\ DigitRun(url, i + Len(TxtIdEq)) # <<>>}
    IN  IF hits = {} THEN <<>>
        ELSE DigitRun(url, (CHOOSE i \in hits : \A j \in hits : i <= j) + Len(TxtIdEq))

TxtIncl == <<"i","n","c","l",".">>
TxtNoRom == <<"n","o"," ","R","O","M">>

\* _excluded_feature
ExcludedFeature(feature) ==
    LET f == Strip(feature)
    IN  MatchAt(StrLower(f), TxtIncl, 1) \/ f = TxtNoRom

WEBLINK2_BASE ==
    <<"h","t","t","p","s",":","/","/","v","i","r","t","u","a","l","p","i","n",
      "b","a","l","l","s","p","r","e","a","d","s","h","e","e","t",".","g","i",
      "t","h","u","b",".","i","o","/","t","a","b","l","e","s">>
TxtGameParam == <<"?","g","a","m","e","=">>
TxtFileParams ==
    <<"&","f","i","l","e","T","y","p","e","=","t","a","b","l","e","s",
      "&","f","i","l","e","I","d","=">>

\* _weblink2
Weblink2(master_id, vps_id) ==
    IF master_id = <<>> \/ vps_id = <<>> THEN <<>>
    ELSE WEBLINK2_BASE \o TxtGameParam \o master_id \o TxtFileParams \o vps_id

\* _sanitize_filename_part
SanitizeFilenamePart(s) == ReplaceChar(s, "/", "_")

----------------------------------------------------------------------------
(* Metadata Indexer: _build_indexes and _build_master_map.                 *)
(* A game entry is JObj of a record with the keys id, name, manufacturer,  *)
(* year, players, type, theme, designers, ipdbUrl, tableFiles; a table     *)
(* file is JObj of a record with the keys id, game, edition, gameFileName, *)
(* authors, version, features, createdAt.  A missing key is JNull, as      *)
(* dict.get returns None for it.                                           *)

\* str(int(x)) for a number, str(x) for a str, "" for None
NumOrStr(j) ==
    IF j.t = "num" THEN IntStr(j.v) ELSE IF j.t = "str" THEN j.v ELSE <<>>

\* ", ".join(x) if isinstance(x, list) else (x or "")
ThemeStr(j) == IF j.t = "list" THEN Join(CommaSpace, StrItems(j.v)) ELSE OrEmpty(j)

\* ", ".join(x) if isinstance(x, list) else ""
DesignersStr(j) == IF j.t = "list" THEN Join(CommaSpace, StrItems(j.v)) ELSE <<>>

\* the authors list of a table file
AuthorsList(j) ==
    IF j.t = "str" THEN (IF j.v = <<>> THEN <<>> ELSE << j.v >>)
    ELSE IF j.t = "list" THEN StrItems(j.v)
    ELSE <<>>

RECURSIVE KeepTags(_)
KeepTags(strs) ==
    IF strs = <<>> THEN <<>>
    ELSE (IF Strip(Head(strs)) # <<>> /\ ~ExcludedFeature(Head(strs))
          THEN << Head(strs) >> ELSE <<>>) \o KeepTags(Tail(strs))

\* the tags_list of a table file
TagsList(j) == IF j.t = "list" THEN KeepTags(StrItems(j.v)) ELSE <<>>

TxtDash == <<" ","-"," ">>
TxtOpen == <<" ","(">>

\* game_name of a table file: base name, edition, "(manufacturer year)"
ComposeName(base_name, edition, manuf, year_s) ==
    LET name_with_ed ==
            IF edition # <<>> /\ ~Contains(StrLower(base_name), StrLower(edition))
            THEN base_name \o TxtDash \o edition
            ELSE base_name
    IN  IF manuf # <<>> /\ year_s # <<>>
        THEN name_with_ed \o TxtOpen \o manuf \o <<" ">> \o year_s \o <<")">>
        ELSE name_with_ed

\* (tf.get("game") or {}).get("id")
TfGameId(tf) == IF tf.game.t = "obj" THEN OrEmpty(tf.game.v.id) ELSE <<>>

\* the TableCtx that _build_indexes stores for table file tf, the idx-th
\* (0-based) of game g
MakeCtx(g, tf, idx) ==
    LET manuf  == OrEmpty(g.manufacturer)
        year_s == NumOrStr(g.year)
        url    == NormWeblink(OrEmpty(g.ipdbUrl))
    IN  [ game_id      |-> IF TfGameId(tf) # <<>> THEN TfGameId(tf) ELSE OrEmpty(g.id),
          game_name    |-> ComposeName(OrEmpty(g.name), OrEmpty(tf.edition), manuf, year_s),
          manufacturer |-> manuf,
          year         |-> year_s,
          players      |-> NumOrStr(g.players),
          game_type    |-> OrEmpty(g.type),
          theme        |-> ThemeStr(g.theme),
          designers    |-> DesignersStr(g.designers),
          ipdb_url     |-> url,
          ipdb_num     |-> ParseIpdbNum(url),
          authors      |-> AuthorsList(tf.authors),
          version      |-> OrEmpty(tf.version),
          tags_list    |-> TagsList(tf.features),
          edition      |-> OrEmpty(tf.edition),
          created_at   |-> IF tf.createdAt.t = "num" THEN tf.createdAt.v ELSE 0,
          tf_index     |-> idx,
          tf_gamefile_name |-> OrEmpty(tf.gameFileName) ]

\* the table files of a game entry: g.get("tableFiles") or []
TableFiles(g) == IF g.tableFiles.t = "list" THEN g.tableFiles.v ELSE <<>>

\* a table file that the loops index: a dict with a truthy id
Indexed(tf) == tf.t = "obj" /\ Truthy(tf.v.id)

\* the inner loop of _build_indexes from table file number idx (0-based) on
RECURSIVE IndexTableFiles(_, _, _)
IndexTableFiles(g, idx, out) ==
    IF idx >= Len(TableFiles(g)) THEN out
    ELSE LET tf == TableFiles(g)[idx + 1]
         IN  IndexTableFiles(g, idx + 1,
                IF Indexed(tf)
                THEN (tf.v.id.v :> MakeCtx(g, tf.v, idx)) @@ out
                ELSE out)

\* _build_indexes: tableFiles[].id -> TableCtx, a later entry overwrites
RECURSIVE BuildIndexesFrom(_, _)
BuildIndexesFrom(games, out) ==
    IF games = <<>> THEN out
    ELSE BuildIndexesFrom(Tail(games),
            IF Head(games).t = "obj"
            THEN IndexTableFiles(Head(games).v, 0, out)
            ELSE out)

BuildIndexes(games) == BuildIndexesFrom(games, << >>)

\* MasterTableFiles that prefers the id of the parent game entry
RECURSIVE MasterParentFirst(_, _, _)
MasterParentFirst(g, idx, out) ==
    IF idx >= Len(TableFiles(g)) THEN out
    ELSE LET tf == TableFiles(g)[idx + 1]
         IN  MasterParentFirst(g, idx + 1,
                IF Indexed(tf)
                THEN (tf.v.id.v :>
                        (IF OrEmpty(g.id) # <<>> THEN OrEmpty(g.id) ELSE TfGameId(tf.v)))
                     @@ out
                ELSE out)

\* the inner loop of _build_master_map from table file number idx on
RECURSIVE MasterTableFiles(_, _, _)
MasterTableFiles(g, idx, out) ==
    IF idx >= Len(TableFiles(g)) THEN out
    ELSE LET tf == TableFiles(g)[idx + 1]
         IN  MasterTableFiles(g, idx + 1,
                IF Indexed(tf)
                THEN (tf.v.id.v :>
                        (IF TfGameId(tf.v) # <<>> THEN TfGameId(tf.v) ELSE OrEmpty(g.id)))
                     @@ out
                ELSE out)

\* _build_master_map: tableFiles[].id -> game.id
RECURSIVE BuildMasterMapFrom(_, _)
BuildMasterMapFrom(games, out) ==
    IF games = <<>> THEN out
    ELSE BuildMasterMapFrom(Tail(games),
            IF Head(games).t = "obj"
            THEN MasterTableFiles(Head(games).v, 0, out)
            ELSE out)

BuildMasterMap(games) == BuildMasterMapFrom(games, << >>)


----------------------------------------------------------------------------
(* Field Enricher and Ordering: _build_gamefile_name, _sort_key_for_ctx,   *)
(* _generate_rows.                                                         *)

OUT_COLUMNS ==
    <<"GameFileName","GameName","Manufact","GameYear","NumPlayers","GameType",
      "Category","GameTheme","WebLinkURL","WebLink2URL","IPDBNum","AltRunMode",
      "DesignedBy","Author","GAMEVER","Rom","Tags","VPS-ID","WebGameID","MasterID">>

\* the position (1-based) of a column of OUT_COLUMNS
OutIdx(c) == CHOOSE i \in 1..Len(OUT_COLUMNS) : OUT_COLUMNS[i] = c

TxtMOD == <<"M","O","D">>
TxtVR == <<"V","R">>

InList(x, l) == \E i \in 1..Len(l) : l[i] = x

\* _build_gamefile_name
BuildGamefileName(ctx) ==
    IF ctx.tf_gamefile_name # <<>> THEN ctx.tf_gamefile_name
    ELSE LET base == SanitizeFilenamePart(ctx.game_name)
             author_part == IF ctx.authors # <<>> THEN ctx.authors[1] ELSE <<>>
             s1 == IF author_part # <<>>
                   THEN base \o <<" ">> \o author_part \o <<" ">> \o ctx.version
                   ELSE IF ctx.version # <<>> THEN base \o <<" ">> \o ctx.version
                   ELSE base
             s2 == IF InList(TxtMOD, ctx.tags_list) THEN s1 \o <<" ">> \o TxtMOD ELSE s1
         IN  IF InList(TxtVR, ctx.tags_list) THEN s2 \o <<" ">> \o TxtVR ELSE s2

\* _sort_key_for_ctx with the creation time ascending
SortKeyOldestFirst(ctx) ==
    << SplitFirst(ctx.game_name, TxtOpen),
       ctx.created_at,
       IF ctx.edition = <<>> THEN 0 ELSE 1,
       ctx.tf_index >>

\* _sort_key_for_ctx
SortKeyForCtx(ctx) ==
    << SplitFirst(ctx.game_name, TxtOpen),
       -ctx.created_at,
       IF ctx.edition = <<>> THEN 0 ELSE 1,
       ctx.tf_index >>

NoCtxPosition == 9999

\* the key of a row that has no context in _generate_rows.key
NoCtxKey == << <<>>, 0, 0, NoCtxPosition >>

\* k1 < k2 on the key tuples (str, int, int, int)
KeyLess(k1, k2) ==
    \/ StrLess(k1[1], k2[1])
    \/ /\ k1[1] = k2[1]
       /\ \/ k1[2] < k2[2]
          \/ k1[2] = k2[2] /\ k1[3] < k2[3]
          \/ k1[2] = k2[2] /\ k1[3] = k2[3] /\ k1[4] < k2[4]

\* key(row) of _generate_rows
RowKey(row, ctxs) ==
    LET vid == row[OutIdx("VPS-ID")]
    IN  IF vid \in DOMAIN ctxs THEN SortKeyForCtx(ctxs[vid]) ELSE NoCtxKey

\* Assemble with the second web link put before the first one
AssembleLinkFirst(base_out, wl2, vps_id, master) ==
    LET wl_idx == BaseIdx("WebLinkURL")
    IN  SubSeq(base_out, 1, wl_idx - 1) \o << wl2 >>
        \o SubSeq(base_out, wl_idx, Len(base_out)) \o << vps_id, master >>

\* base_out[:wl_idx+1] + [wl2] + base_out[wl_idx+1:] + [vps_id, master]
Assemble(base_out, wl2, vps_id, master) ==
    LET wl_idx == BaseIdx("WebLinkURL")
    IN  SubSeq(base_out, 1, wl_idx) \o << wl2 >>
        \o SubSeq(base_out, wl_idx + 1, Len(base_out)) \o << vps_id, master >>

\* the template row with the fields of the context written over it
Overwrite(trow, ctx) ==
    [i \in 1..NumBase |->
        CASE BASE_COLUMNS[i] = "GameName"     -> ctx.game_name
          [] BASE_COLUMNS[i] = "Manufact"     -> ctx.manufacturer
          [] BASE_COLUMNS[i] = "GameYear"     -> ctx.year
          [] BASE_COLUMNS[i] = "NumPlayers"   -> ctx.players
          [] BASE_COLUMNS[i] = "GameType"     -> ctx.game_type
          [] BASE_COLUMNS[i] = "GameTheme"    -> ctx.theme
          [] BASE_COLUMNS[i] = "WebLinkURL"   -> ctx.ipdb_url
          [] BASE_COLUMNS[i] = "IPDBNum"      -> ctx.ipdb_num
          [] BASE_COLUMNS[i] = "DesignedBy"   -> ctx.designers
          [] BASE_COLUMNS[i] = "Author"       -> Join(CommaSpace, ctx.authors)
          [] BASE_COLUMNS[i] = "GAMEVER"      -> ctx.version
          [] BASE_COLUMNS[i] = "Tags"         -> Join(CommaSpace, ctx.tags_list)
          [] BASE_COLUMNS[i] = "GameFileName" -> BuildGamefileName(ctx)
          [] OTHER -> trow[i]]

\* one pass of the loop of _generate_rows: the output row of template row trow
EnrichRow(trow, ctxs, masters) ==
    LET vps_id == trow[BaseIdx("VPS-ID")]
    IN  IF vps_id \notin DOMAIN ctxs
        THEN Assemble(trow, <<>>, vps_id, <<>>)
        ELSE LET ctx == ctxs[vps_id]
                 master == IF vps_id \in DOMAIN masters
                           THEN masters[vps_id] ELSE ctx.game_id
             IN  Assemble(Overwrite(trow, ctx), Weblink2(master, vps_id), vps_id, master)

\* sorted(): x goes after every row whose key is not greater (stable)
RECURSIVE InsertSorted(_, _, _)
InsertSorted(x, rows, ctxs) ==
    IF rows = <<>> THEN << x >>
    ELSE IF KeyLess(RowKey(x, ctxs), RowKey(Head(rows), ctxs))
         THEN << x >> \o rows
         ELSE << Head(rows) >> \o InsertSorted(x, Tail(rows), ctxs)

RECURSIVE SortRows(_, _)
SortRows(rows, ctxs) ==
    IF rows = <<>> THEN <<>>
    ELSE InsertSorted(rows[Len(rows)],
                      SortRows(SubSeq(rows, 1, Len(rows) - 1), ctxs),
                      ctxs)

\* _generate_rows: the header, then the enriched rows sorted by key
GenerateRows(template_rows, ctxs, masters) ==
    << OUT_COLUMNS >> \o
    SortRows([i \in 1..Len(template_rows) |->
                EnrichRow(template_rows[i], ctxs, masters)],
             ctxs)


----------------------------------------------------------------------------
(* The merge of generate_output_csv on cached files that exist and parse:  *)
(* _read_template_rows, _build_indexes, _build_master_map, _generate_rows. *)

MaxFileRows == 3

TxtId2   == <<"z","z","z","z","1","2","3","4">>
TxtId3   == <<"m","m","m","m","_","-","9","9">>
TxtG1    == <<"g","1">>
TxtG2    == <<"g","2">>
TxtEdA   == <<"A">>
TxtSmith == <<"S","m","i","t","h">>
TxtVer   == <<"1",".","2">>
TxtUrl   == <<"h","t","t","p",":","/","/","i","p","d","b",".","o","r","g","/","m","?","i","d","=","5">>
TxtInclB == <<"I","n","c","l","."," ","B","2","S">>
TxtSlash == <<"5","0","/","5","0">>
TxtOver  == <<"O","v","e","r",".","v","p","x">>

\* a 17-field row whose VPS-ID field is id
PlainRow(id) == MkRow(NumBase, <<TxtYear, TxtFour>>, (16 :> TxtTag) @@ (17 :> id))

\* the rows a cached puplookup.csv is made of
SampleRows ==
    { PlainRow(TxtId), PlainRow(TxtId2), PlainRow(TxtIdPad),
      \* Manufact split at a comma, 18 fields
      MkRow(NumBase + 1, <<TxtInc, TxtYear>>, (16 :> TxtEmpty) @@ (17 :> TxtTag) @@ (18 :> TxtId2)),
      \* a tag spilled over, 18 fields, the last one the id
      MkRow(NumBase + 1, <<TxtYear, TxtFour>>, (16 :> TxtTag) @@ (17 :> TxtNotId) @@ (18 :> TxtId3)),
      \* 18 fields and neither repair applies
      MkRow(NumBase + 1, <<TxtYear, TxtFour>>, (16 :> TxtTag) @@ (17 :> TxtId) @@ (18 :> TxtShort)),
      \* too short, and a blank line
      MkRow(NumBase - 1, <<TxtYear, TxtFour>>, (16 :> TxtId)),
      <<>> }

SeqsUpTo(S, n) == UNION { [1..k -> S] : k \in 0..n }

NoTf ==
    [ id |-> JNull, game |-> JNull, edition |-> JNull, gameFileName |-> JNull,
      authors |-> JNull, version |-> JNull, features |-> JNull, createdAt |-> JNull ]

NoGame ==
    [ id |-> JNull, name |-> JNull, manufacturer |-> JNull, year |-> JNull,
      players |-> JNull, type |-> JNull, theme |-> JNull, designers |-> JNull,
      ipdbUrl |-> JNull, tableFiles |-> JNull ]

\* one game "Game", two table files: created 100 without edition, created 200
\* with edition "A"
DbTwoFiles ==
    << JObj([NoGame EXCEPT
        !.id = JStr(TxtG1), !.name = JStr(TxtName),
        !.tableFiles = JList(<<
            JObj([NoTf EXCEPT !.id = JStr(TxtId), !.createdAt = JNum(100)]),
            JObj([NoTf EXCEPT !.id = JStr(TxtId2), !.createdAt = JNum(200),
                              !.edition = JStr(TxtEdA)]) >>)]) >>

\* a game without a name: the name prefix of its table files is empty
DbNoName ==
    << JObj([NoGame EXCEPT
        !.id = JStr(TxtG1),
        !.tableFiles = JList(<<
            JObj([NoTf EXCEPT !.id = JStr(TxtId)]),
            JObj([NoTf EXCEPT !.id = JStr(TxtId3), !.edition = JStr(TxtEdA)]) >>)]) >>

\* a game with every field set, and a table file that names its own game
DbFull ==
    << JStr(TxtName),
       JObj([NoGame EXCEPT
        !.id = JStr(TxtG1), !.name = JStr(TxtSlash), !.manufacturer = JStr(TxtManu),
        !.year = JNum(2020), !.players = JStr(TxtFour), !.type = JStr(TxtEdA),
        !.theme = JList(<< JStr(TxtName), JStr(TxtManu) >>),
        !.designers = JList(<< JStr(TxtSmith) >>), !.ipdbUrl = JStr(TxtUrl),
        !.tableFiles = JList(<<
            JObj([NoTf EXCEPT !.edition = JStr(TxtEdA)]),
            JNum(1),
            JObj([NoTf EXCEPT !.id = JStr(TxtId), !.authors = JList(<< JStr(TxtSmith), JNum(1) >>),
                              !.version = JStr(TxtVer), !.createdAt = JNum(100),
                              !.features = JList(<< JStr(TxtVR), JStr(TxtInclB), JStr(TxtMOD) >>)]),
            JObj([NoTf EXCEPT !.id = JStr(TxtId2), !.game = JObj([id |-> JStr(TxtG2)]),
                              !.authors = JStr(TxtSmith), !.createdAt = JNum(100)]),
            JObj([NoTf EXCEPT !.id = JStr(TxtId3), !.gameFileName = JStr(TxtOver),
                              !.version = JStr(TxtVer), !.createdAt = JNum(300)]) >>)]) >>

\* two games that both hold table file TxtId: the later one wins
DbCollision == DbTwoFiles \o
    << JObj([NoGame EXCEPT
        !.id = JStr(TxtG2), !.name = JStr(TxtManu), !.year = JStr(TxtYear),
        !.manufacturer = JStr(TxtManu),
        !.tableFiles = JList(<< JObj([NoTf EXCEPT !.id = JStr(TxtId)]) >>)]) >>

\* one game "Game": an edition that its name holds, created 100; no edition,
\* created 100, a first author without a name; no edition, created 300
DbEditions ==
    << JObj([NoGame EXCEPT
        !.id = JStr(TxtG1), !.name = JStr(TxtName),
        !.tableFiles = JList(<<
            JObj([NoTf EXCEPT !.id = JStr(TxtId), !.createdAt = JNum(100),
                              !.edition = JStr(TxtEdA)]),
            JObj([NoTf EXCEPT !.id = JStr(TxtId2), !.createdAt = JNum(100),
                              !.authors = JList(<< JStr(<<>>), JStr(TxtSmith) >>),
                              !.version = JStr(TxtVer)]),
            JObj([NoTf EXCEPT !.id = JStr(TxtId3), !.createdAt = JNum(300)]) >>)]) >>

\* a game without an id, one table file that names no game and one that
\* names game g2; then game g1 with a table file that names no game
DbNoId ==
    << JObj([NoGame EXCEPT
        !.name = JStr(TxtName),
        !.tableFiles = JList(<<
            JObj([NoTf EXCEPT !.id = JStr(TxtId)]),
            JObj([NoTf EXCEPT !.id = JStr(TxtId2), !.game = JObj([id |-> JStr(TxtG2)])]) >>)]),
       JObj([NoGame EXCEPT
        !.id = JStr(TxtG1), !.name = JStr(TxtManu),
        !.tableFiles = JList(<< JObj([NoTf EXCEPT !.id = JStr(TxtId3)]) >>)]) >>

SampleDbs == { <<>>, DbTwoFiles, DbNoName, DbFull, DbCollision, DbEditions, DbNoId }

MergeInit ==
    /\ fileRows \in SeqsUpTo(SampleRows, MaxFileRows)
    /\ vpsdb \in SampleDbs
    /\ rowIdx = 0
    /\ repaired = <<>>
    /\ ctx_by_vpsid = << >>
    /\ master_by_vpsid = << >>
    /\ out_rows = <<>>
    /\ mergePc = "read"

\* ReadOne that keeps the raw row instead of the repaired one
ReadOneRaw(acc, row) ==
    IF RepairTemplateRow(row) # <<>> THEN Append(acc, row) ELSE acc

\* repaired after one pass of the loop of _read_template_rows over row
ReadOne(acc, row) ==
    LET fx == RepairTemplateRow(row)
    IN  IF fx # <<>> THEN Append(acc, fx[1]) ELSE acc

\* one pass of "for row in reader"
ReadRow ==
    /\ mergePc = "read"
    /\ rowIdx < Len(fileRows)
    /\ repaired' = ReadOne(repaired, fileRows[rowIdx + 1])
    /\ rowIdx' = rowIdx + 1
    /\ UNCHANGED <<fileRows, vpsdb, ctx_by_vpsid, master_by_vpsid, out_rows, mergePc,
                   repairVars, jobVars, rotateVars, downloadVars>>

\* the reader is exhausted: _read_template_rows returns repaired
ReadEnd ==
    /\ mergePc = "read"
    /\ rowIdx = Len(fileRows)
    /\ mergePc' = "index"
    /\ UNCHANGED <<fileRows, rowIdx, repaired, vpsdb, ctx_by_vpsid, master_by_vpsid,
                   out_rows, repairVars, jobVars, rotateVars, downloadVars>>

\* ctx_by_vpsid = _build_indexes(vpsdb); master_by_vpsid = _build_master_map(vpsdb)
BuildMaps ==
    /\ mergePc = "index"
    /\ ctx_by_vpsid' = BuildIndexes(vpsdb)
    /\ master_by_vpsid' = BuildMasterMap(vpsdb)
    /\ mergePc' = "generate"
    /\ UNCHANGED <<fileRows, rowIdx, repaired, vpsdb, out_rows, repairVars, jobVars, rotateVars, downloadVars>>

\* out_rows = _generate_rows(template_rows, ctx_by_vpsid, master_by_vpsid)
Generate ==
    /\ mergePc = "generate"
    /\ out_rows' = GenerateRows(repaired, ctx_by_vpsid, master_by_vpsid)
    /\ mergePc' = "done"
    /\ UNCHANGED <<fileRows, rowIdx, repaired, vpsdb, ctx_by_vpsid, master_by_vpsid,
                   repairVars, jobVars, rotateVars, downloadVars>>

MergeNext == ReadRow \/ ReadEnd \/ BuildMaps \/ Generate

InitMerge == MergeInit /\ RepairIdle /\ JobIdle /\ RotateIdle /\ DownloadIdle

SpecMerge == InitMerge /\ [][MergeNext]_vars


----------------------------------------------------------------------------
(* Claims about the merge, under SpecMerge.                                *)

\* the data rows of the output, without the header
DataRows == SubSeq(out_rows, 2, Len(out_rows))

\* an output row whose VPS-ID has a context
HasCtx(row) == row[OutIdx("VPS-ID")] \in DOMAIN ctx_by_vpsid

\* C2: in the output of _generate_rows every data row without a context
\* comes after every data row that has one.
C2_NoCtxRowsSortLast ==
    mergePc = "done" =>
        \A i, j \in 1..Len(DataRows) :
            (~HasCtx(DataRows[i]) /\ HasCtx(DataRows[j])) => j < i

\* the rows Row Repair accepts, repaired, in the order of the file
RECURSIVE KeptRows(_)
KeptRows(rows) ==
    IF rows = <<>> THEN <<>> ELSE RepairTemplateRow(Head(rows)) \o KeptRows(Tail(rows))

\* the split-manufacturer repair applies to the row
SplitApplies(row) ==
    Len(row) = NumBase + 1 /\ ~YEAR_RE(Strip(row[4])) /\ YEAR_RE(Strip(row[5]))

\* the fold-extras repair applies to the row
FoldApplies(row) == Len(row) > NumBase /\ VPS_ID_RE(Strip(row[Len(row)]))

\* a row the claim names as dropped
NamedDropped(row) ==
    \/ Len(row) < NumBase
    \/ Len(row) > NumBase /\ ~SplitApplies(row) /\ ~FoldApplies(row)

\* C9: _read_template_rows takes every row of the file and returns, in the
\* order of the file, exactly the repaired form of the rows Row Repair
\* accepts; rows with fewer than 17 fields and rows with 18 or more fields
\* that neither repair applies to are dropped, and the rows after a dropped
\* row are still processed.
C9_ReadKeepsAcceptedRowsInOrder ==
    /\ mergePc \in {"read", "index", "generate", "done"} =>
          /\ repaired = KeptRows(SubSeq(fileRows, 1, rowIdx))
          /\ \A i \in 1..rowIdx :
                NamedDropped(fileRows[i]) =>
                    Len(KeptRows(SubSeq(fileRows, 1, i)))
                        = Len(KeptRows(SubSeq(fileRows, 1, i - 1)))
    /\ mergePc \in {"index", "generate", "done"} => rowIdx = Len(fileRows)

\* a file of three rows: the first is dropped, a later one is kept, and one
\* is kept in a repaired form
C9_Witness ==
    /\ mergePc = "index"
    /\ Len(fileRows) = MaxFileRows
    /\ NamedDropped(fileRows[1])
    /\ repaired # <<>>
    /\ \E i \in 1..Len(fileRows) :
          RepairTemplateRow(fileRows[i]) \notin {<<>>, << fileRows[i] >>}

\* the output row the claim gives for template row t without a context
NoCtxShape(t) ==
    << t[1], t[2], t[3], t[4], t[5], t[6], t[7], t[8], t[9], <<>>,
       t[10], t[11], t[12], t[13], t[14], t[15], t[16], t[17], t[17], <<>> >>

\* the rows of a list for which no context exists, by the field at position k
RECURSIVE Without(_, _)
Without(rows, k) ==
    IF rows = <<>> THEN <<>>
    ELSE (IF Head(rows)[k] \in DOMAIN ctx_by_vpsid THEN <<>> ELSE << Head(rows) >>)
         \o Without(Tail(rows), k)

\* C10: a repaired row whose source identifier has no context gives an
\* output row of 20 fields: template fields 0..8, an empty second web link,
\* template fields 9..16, the source identifier, an empty owning identifier.
C10_NoCtxRowPassesThrough ==
    mergePc = "done" =>
        LET tmpl == Without(repaired, BaseIdx("VPS-ID"))
            outs == Without(DataRows, OutIdx("VPS-ID"))
        IN  /\ Len(outs) = Len(tmpl)
            /\ \A i \in 1..Len(outs) :
                  /\ Len(outs[i]) = Len(OUT_COLUMNS)
                  /\ outs[i] = NoCtxShape(tmpl[i])

\* an output that holds a row without a context beside a row with one
C10_Witness ==
    /\ mergePc = "done"
    /\ \E i, j \in 1..Len(DataRows) : ~HasCtx(DataRows[i]) /\ HasCtx(DataRows[j])
    /\ \E i \in 1..Len(DataRows) :
          ~HasCtx(DataRows[i]) /\ DataRows[i][BaseIdx("Tags") + 1] # <<>>


----------------------------------------------------------------------------
(* Claims about the ordering and the enrichment, under SpecMerge.          *)

\* the context of an output row that has one
CtxOf(row) == ctx_by_vpsid[row[OutIdx("VPS-ID")]]

\* a text cut before its first " ("
CutBeforeParen(s) ==
    IF \E i \in 1..Len(s) : MatchAt(s, TxtOpen, i)
    THEN SubSeq(s, 1, (CHOOSE i \in 1..Len(s) :
                          /\ MatchAt(s, TxtOpen, i)
                          /\ \A k \in 1..(i - 1) : ~MatchAt(s, TxtOpen, k)) - 1)
    ELSE s

\* the tuple the ordering goes by
OrderTuple(ctx) ==
    << CutBeforeParen(ctx.game_name), -ctx.created_at,
       IF ctx.edition = <<>> THEN 0 ELSE 1, ctx.tf_index >>

\* a is lexicographically smaller than b
LexLess(a, b) ==
    \E k \in 1..4 :
        /\ \A n \in 1..(k - 1) : a[n] = b[n]
        /\ IF k = 1 THEN StrLess(a[1], b[1]) ELSE a[k] < b[k]

\* C11: of two output data rows that both have a context, the one whose
\* tuple (name prefix, -creation time, edition rank, position) is
\* lexicographically smaller comes earlier in the output.
C11_CtxRowsOrderedByTuple ==
    mergePc = "done" =>
        \A i, j \in 1..Len(DataRows) :
            ( /\ HasCtx(DataRows[i]) /\ HasCtx(DataRows[j])
              /\ LexLess(OrderTuple(CtxOf(DataRows[i])), OrderTuple(CtxOf(DataRows[j]))) )
                => i < j

\* an output of three rows of one name prefix: one pair is decided by the
\* creation time, one by the edition rank against the position
C11_Witness ==
    /\ mergePc = "done"
    /\ Len(DataRows) = 3
    /\ \A i \in 1..3 : HasCtx(DataRows[i])
    /\ \A i \in 1..3 : OrderTuple(CtxOf(DataRows[i]))[1] = OrderTuple(CtxOf(DataRows[1]))[1]
    /\ CtxOf(DataRows[1]).created_at > CtxOf(DataRows[2]).created_at
    /\ CtxOf(DataRows[2]).created_at = CtxOf(DataRows[3]).created_at
    /\ CtxOf(DataRows[2]).edition = <<>> /\ CtxOf(DataRows[3]).edition # <<>>
    /\ CtxOf(DataRows[2]).tf_index > CtxOf(DataRows[3]).tf_index
    /\ repaired[1][BaseIdx("VPS-ID")] = DataRows[3][OutIdx("VPS-ID")]


\* the file name the rule gives for a context
RuleFileName(ctx) ==
    IF ctx.tf_gamefile_name # <<>> THEN ctx.tf_gamefile_name
    ELSE LET base == [i \in 1..Len(ctx.game_name) |->
                        IF ctx.game_name[i] = "/" THEN "_" ELSE ctx.game_name[i]]
             named == IF ctx.authors # <<>>
                      THEN base \o <<" ">> \o ctx.authors[1] \o <<" ">> \o ctx.version
                      ELSE IF ctx.version # <<>> THEN base \o <<" ">> \o ctx.version
                      ELSE base
             mod == IF \E i \in 1..Len(ctx.tags_list) : ctx.tags_list[i] = TxtMOD
                    THEN named \o <<" ">> \o TxtMOD ELSE named
         IN  IF \E i \in 1..Len(ctx.tags_list) : ctx.tags_list[i] = TxtVR
             THEN mod \o <<" ">> \o TxtVR ELSE mod

\* C12: the file name of every output row that has a context is the
\* override if the context carries one, else the display name with "/"
\* replaced by "_", then " " + first author + " " + version if an author
\* exists (" " + version, when not empty, if none does), then " MOD" and
\* " VR" if the tags hold them.
C12_FileNameFollowsRule ==
    mergePc = "done" =>
        \A i \in 1..Len(DataRows) :
            HasCtx(DataRows[i]) =>
                DataRows[i][OutIdx("GameFileName")] = RuleFileName(CtxOf(DataRows[i]))


\* the (game entry, table file) pairs of a metadata database, in its order
RECURSIVE FilePairs(_)
FilePairs(games) ==
    IF games = <<>> THEN <<>>
    ELSE (IF Head(games).t = "obj"
          THEN LET g == Head(games).v
                   tfs == IF g.tableFiles.t = "list" THEN g.tableFiles.v ELSE <<>>
               IN  SelectSeq([k \in 1..Len(tfs) |-> [g |-> g, tf |-> tfs[k]]],
                             LAMBDA e : e.tf.t = "obj")
          ELSE <<>>) \o FilePairs(Tail(games))

\* the pair whose table file matches a source identifier: the last one
MatchingPair(vid) ==
    LET ps == SelectSeq(FilePairs(vpsdb), LAMBDA e : e.tf.v.id = JStr(vid))
    IN  ps[Len(ps)]

\* the owning id of a pair: the declared game-group id, else the parent
\* entry's id, else empty
OwningId(e) ==
    LET tf == e.tf.v
        declared == IF tf.game.t = "obj" /\ tf.game.v.id.t = "str" THEN tf.game.v.id.v
                    ELSE <<>>
        parent == IF e.g.id.t = "str" THEN e.g.id.v ELSE <<>>
    IN  IF declared # <<>> THEN declared ELSE parent

\* the second web link for an owning id and a source identifier
RuleWebLink2(owner, vid) ==
    IF owner = <<>> \/ vid = <<>> THEN <<>>
    ELSE <<"h","t","t","p","s",":","/","/","v","i","r","t","u","a","l","p","i","n","b",
           "a","l","l","s","p","r","e","a","d","s","h","e","e","t",".","g","i","t","h",
           "u","b",".","i","o","/","t","a","b","l","e","s","?","g","a","m","e","=">>
         \o owner
         \o <<"&","f","i","l","e","T","y","p","e","=","t","a","b","l","e","s","&",
              "f","i","l","e","I","d","=">>
         \o vid

\* C13: in every output row that has a context the owning identifier is the
\* matching table file's declared game-group id if present, else the parent
\* game entry's id, else empty; the second web link is the templated URL of
\* the owning id and the source identifier, and empty when either is missing.
C13_OwningIdAndSecondLink ==
    mergePc = "done" =>
        \A i \in 1..Len(DataRows) :
            HasCtx(DataRows[i]) =>
                LET vid == DataRows[i][OutIdx("VPS-ID")]
                    owner == OwningId(MatchingPair(vid))
                IN  /\ DataRows[i][OutIdx("MasterID")] = owner
                    /\ DataRows[i][OutIdx("WebLink2URL")] = RuleWebLink2(owner, vid)

\* an output with three rows that have a context: one whose owning id is
\* the declared one, one that has the parent's, one that has none
C13_Witness ==
    /\ mergePc = "done"
    /\ \E i, j, k \in 1..Len(DataRows) :
          /\ HasCtx(DataRows[i]) /\ HasCtx(DataRows[j]) /\ HasCtx(DataRows[k])
          /\ DataRows[i][OutIdx("MasterID")] = TxtG2
          /\ OrEmpty(MatchingPair(DataRows[i][OutIdx("VPS-ID")]).g.id) # TxtG2
          /\ DataRows[j][OutIdx("MasterID")] = TxtG1
          /\ DataRows[j][OutIdx("WebLink2URL")] # <<>>
          /\ DataRows[k][OutIdx("MasterID")] = <<>>
          /\ DataRows[k][OutIdx("WebLink2URL")] = <<>>


----------------------------------------------------------------------------
(* The service: create_app, the scheduler job, the /export handler, and    *)
(* JobService.run_sync_and_export with SyncService, BackupService and the  *)
(* file writes of ExportService.  A file of the cache is [ver, kind]: the  *)
(* remote epoch it was fetched at and what it holds; the output file is    *)
(* the sequence of chunks flushed to it, each tagged <<ver of the lookup   *)
(* rows, ver of the vpsdb>> it was generated from.                         *)

Threads == {"startup", "schedule", "manual"}

SCHEDULED_TRIGGER == "schedule"

MaxEpoch == 2
OutChunks == 2
max_backups == 1
MaxRemovals == 1
\* how many runs are triggered: startup export, timer firings, /export requests
MaxTriggers == 2

\* what the remote serves as (puplookup.csv, vpsdb.json)
RemoteKinds ==
    { <<"ok", "array">>, <<"noheader", "array">>, <<"ok", "notarray">>,
      <<"ok", "malformed">> }

Absent == [ver |-> 0, kind |-> "absent"]
NoTs == [kind |-> "absent", val |-> 0]
Hole == <<0, 0>>

Unread == [ver |-> 0, kind |-> "unread"]

NoLocals ==
    [ remote_epoch |-> 0, local_epoch |-> 0, updated |-> FALSE, ret |-> "none",
      pup_bytes |-> Absent, vpsdb_bytes |-> Absent, template |-> Unread,
      vpsdata |-> Unread, handle |-> 0, pos |-> 0, stored |-> FALSE, wrote |-> FALSE ]

NoRequest == [api |-> FALSE, download |-> FALSE]
NoResponse == [status |-> 0, body |-> "none"]

\* a first boot on empty volumes, or a boot on volumes a former process left
DiskStates ==
    { [pup |-> Absent, vps |-> Absent, ts |-> NoTs, out |-> 0, files |-> << >>],
      [pup |-> [ver |-> 1, kind |-> "ok"], vps |-> [ver |-> 1, kind |-> "array"],
       ts |-> [kind |-> "num", val |-> 1], out |-> 1,
       files |-> (1 :> << <<1, 1>>, <<1, 1>> >>)] }

JobInit ==
    /\ remote = [epoch |-> 1, pup |-> "ok", vps |-> "array"]
    /\ \E d \in DiskStates :
          /\ pupFile = d.pup
          /\ vpsFile = d.vps
          /\ tsFile = d.ts
          /\ outId = d.out
          /\ files = [i \in DOMAIN d.files |-> [j \in 1..OutChunks |-> <<1, 1>>]]
    /\ backups = <<>>
    /\ pc = [p \in Threads |-> IF p = "startup" THEN "boot" ELSE "idle"]
    /\ loc = [p \in Threads |-> NoLocals]
    /\ result = [p \in Threads |-> "none"]
    /\ request = NoRequest
    /\ response = NoResponse
    /\ booted = FALSE
    /\ used = NoneUsed

\* run_sync_and_export(trigger = p) is entered
Enter(p) ==
    /\ pc' = [pc EXCEPT ![p] = "ensure"]
    /\ loc' = [loc EXCEPT ![p] = NoLocals]
    /\ result' = [result EXCEPT ![p] = "running"]

\* run_sync_and_export ends: a return (created, skipped) or the exception raised
Leave(p, exc) ==
    /\ pc' = [pc EXCEPT ![p] = "ret"]
    /\ result' = [result EXCEPT ![p] = exc]

Goto(p, label) == pc' = [pc EXCEPT ![p] = label]

\* the caller is done with the run: its locals and its outcome are gone
Forget(p) ==
    /\ loc' = [loc EXCEPT ![p] = NoLocals]
    /\ result' = [result EXCEPT ![p] = "none"]

----------------------------------------------------------------------------
(* SyncService                                                             *)

\* ensure_local_cache: is one of the three cache files missing?
Ensure(p) ==
    /\ pc[p] = "ensure"
    /\ IF \/ pupFile.kind = "absent" \/ vpsFile.kind = "absent" \/ tsFile.kind = "absent"
       THEN Goto(p, "ens_fetch")
       ELSE Goto(p, "check")
    /\ UNCHANGED <<remote, pupFile, vpsFile, tsFile, outId, files, backups, loc, result,
                   request, response, booted, used,
                   repairVars, mergeVars, rotateVars, downloadVars>>

\* ensure_local_cache: remote_epoch = fetch_last_updated_epoch_ms(), _download_all
EnsureFetch(p) ==
    /\ pc[p] = "ens_fetch"
    /\ Goto(p, "dl_pup")
    /\ loc' = [loc EXCEPT ![p].remote_epoch = remote.epoch, ![p].ret = "check"]
    /\ UNCHANGED <<remote, pupFile, vpsFile, tsFile, outId, files, backups, result,
                   request, response, booted, used,
                   repairVars, mergeVars, rotateVars, downloadVars>>

\* HttpClient.get_text / get_bytes raises RemoteFetchError
FetchFails(p) ==
    /\ pc[p] \in {"ens_fetch", "check_fetch", "dl_pup", "dl_vps"}
    /\ Leave(p, "RemoteFetchError")
    /\ UNCHANGED <<remote, pupFile, vpsFile, tsFile, outId, files, backups, loc,
                   request, response, booted, used,
                   repairVars, mergeVars, rotateVars, downloadVars>>

\* _download_all: pup_bytes = fetch_puplookup_csv_bytes()
DownloadPup(p) ==
    /\ pc[p] = "dl_pup"
    /\ Goto(p, "dl_vps")
    /\ loc' = [loc EXCEPT ![p].pup_bytes = [ver |-> remote.epoch, kind |-> remote.pup]]
    /\ UNCHANGED <<remote, pupFile, vpsFile, tsFile, outId, files, backups, result,
                   request, response, booted, used,
                   repairVars, mergeVars, rotateVars, downloadVars>>

\* _download_all: vpsdb_bytes = fetch_vpsdb_json_bytes()
DownloadVps(p) ==
    /\ pc[p] = "dl_vps"
    /\ Goto(p, "dl_wpup")
    /\ loc' = [loc EXCEPT ![p].vpsdb_bytes = [ver |-> remote.epoch, kind |-> remote.vps]]
    /\ UNCHANGED <<remote, pupFile, vpsFile, tsFile, outId, files, backups, result,
                   request, response, booted, used,
                   repairVars, mergeVars, rotateVars, downloadVars>>

\* _download_all: atomic_write_bytes(puplookup.csv): tmp file, os.replace
WritePup(p) ==
    /\ pc[p] = "dl_wpup"
    /\ Goto(p, "dl_wvps")
    /\ pupFile' = loc[p].pup_bytes
    /\ loc' = [loc EXCEPT ![p].pup_bytes = Absent]
    /\ UNCHANGED <<remote, vpsFile, tsFile, outId, files, backups, result,
                   request, response, booted, used,
                   repairVars, mergeVars, rotateVars, downloadVars>>

\* _download_all: atomic_write_bytes(vpsdb.json)
WriteVps(p) ==
    /\ pc[p] = "dl_wvps"
    /\ Goto(p, "dl_wts")
    /\ vpsFile' = loc[p].vpsdb_bytes
    /\ loc' = [loc EXCEPT ![p].vpsdb_bytes = Absent]
    /\ UNCHANGED <<remote, pupFile, tsFile, outId, files, backups, result,
                   request, response, booted, used,
                   repairVars, mergeVars, rotateVars, downloadVars>>

\* _download_all: write_text(lastUpdated.json) opens the file, which empties it
TruncateTs(p) ==
    /\ pc[p] = "dl_wts"
    /\ Goto(p, "dl_wts2")
    /\ tsFile' = [kind |-> "empty", val |-> 0]
    /\ UNCHANGED <<remote, pupFile, vpsFile, outId, files, backups, loc, result,
                   request, response, booted, used,
                   repairVars, mergeVars, rotateVars, downloadVars>>

\* _download_all: write_text writes str(remote_epoch_ms); _download_all returns
\* to ensure_local_cache (then check_and_sync is next) or to check_and_sync
\* (which returns updated = True)
WriteTs(p) ==
    /\ pc[p] = "dl_wts2"
    /\ Goto(p, loc[p].ret)
    /\ tsFile' = [kind |-> "num", val |-> loc[p].remote_epoch]
    /\ loc' = [loc EXCEPT ![p].stored = TRUE, ![p].updated = (loc[p].ret = "post"),
                           ![p].remote_epoch = 0, ![p].local_epoch = 0]
    /\ UNCHANGED <<remote, pupFile, vpsFile, outId, files, backups, result,
                   request, response, booted, used,
                   repairVars, mergeVars, rotateVars, downloadVars>>

\* _local_epoch_ms: 0 when the file is missing or int() fails
LocalEpochMs == IF tsFile.kind = "num" THEN tsFile.val ELSE 0

\* check_and_sync: local_epoch = self._local_epoch_ms()
Check(p) ==
    /\ pc[p] = "check"
    /\ Goto(p, "check_fetch")
    /\ loc' = [loc EXCEPT ![p].local_epoch = LocalEpochMs]
    /\ UNCHANGED <<remote, pupFile, vpsFile, tsFile, outId, files, backups, result,
                   request, response, booted, used,
                   repairVars, mergeVars, rotateVars, downloadVars>>

\* Stale that looks at the timestamps only
StaleByTimestampOnly(remote_epoch, local_epoch) == remote_epoch > local_epoch

\* check_and_sync decides on a download: a data file is missing, or the
\* remote epoch is greater than the local one
Stale(remote_epoch, local_epoch) ==
    \/ pupFile.kind = "absent" \/ vpsFile.kind = "absent"
    \/ remote_epoch > local_epoch

\* check_and_sync: remote_epoch = fetch_last_updated_epoch_ms(), and the rest
CheckFetch(p) ==
    /\ pc[p] = "check_fetch"
    /\ IF Stale(remote.epoch, loc[p].local_epoch)
       THEN /\ Goto(p, "dl_pup")
            /\ loc' = [loc EXCEPT ![p].remote_epoch = remote.epoch, ![p].ret = "post"]
       ELSE /\ Goto(p, "post")
            /\ loc' = [loc EXCEPT ![p].local_epoch = 0, ![p].updated = FALSE]
    /\ UNCHANGED <<remote, pupFile, vpsFile, tsFile, outId, files, backups, result,
                   request, response, booted, used,
                   repairVars, mergeVars, rotateVars, downloadVars>>


----------------------------------------------------------------------------
(* BackupService                                                           *)

\* the last n elements of a sequence
LastOf(q, n) == IF Len(q) <= n THEN q ELSE SubSeq(q, Len(q) - n + 1, Len(q))

SeqRange(q) == {q[i] : i \in 1..Len(q)}

\* prune_old_backups: the backups kept, the newest max_backups by st_mtime
PruneOldBackups(bk) == IF max_backups <= 0 THEN bk ELSE LastOf(bk, max_backups)

\* the backups after shutil.move of the output file: a new name, or, in the
\* same second as the last rotation, the name of the newest backup, which
\* the move then replaces
Moved(bk, id, same) ==
    IF same /\ bk # <<>> THEN [bk EXCEPT ![Len(bk)] = id] ELSE Append(bk, id)

\* the files that are still linked in a directory
Linked(fs, out, bk) == [i \in (DOMAIN fs) \cap ({out} \cup SeqRange(bk)) |-> fs[i]]

\* rotate_if_exists
RotateIfExists(same) ==
    IF outId = 0
    THEN UNCHANGED <<outId, files, backups>>
    ELSE LET bk == PruneOldBackups(Moved(backups, outId, same))
         IN  /\ outId' = 0
             /\ backups' = bk
             /\ files' = Linked(files, 0, bk)

----------------------------------------------------------------------------
(* JobService.run_sync_and_export after the sync check, and the reads and  *)
(* writes of ExportService.generate_output_csv                             *)

\* lines 51 to 64: rotate after an update; a scheduled run without an update
\* returns created = False
AfterSync(p) ==
    /\ pc[p] = "post"
    /\ IF loc[p].updated
       THEN \E same \in BOOLEAN : RotateIfExists(same)
       ELSE UNCHANGED <<outId, files, backups>>
    /\ IF p = SCHEDULED_TRIGGER /\ ~loc[p].updated
       THEN Leave(p, "skipped")
       ELSE Goto(p, "gen_tmpl") /\ UNCHANGED result
    /\ UNCHANGED <<remote, pupFile, vpsFile, tsFile, loc, request, response, booted,
                   used,
                   repairVars, mergeVars, rotateVars, downloadVars>>

\* _read_template_rows raises DataValidationError
TemplateInvalid == pupFile.kind \in {"absent", "noheader"}

\* _read_vpsdb raises DataValidationError
VpsdbInvalid == vpsFile.kind \in {"absent", "notarray"}

\* generate_output_csv: template_rows = _read_template_rows(template_csv);
\* loc.template is what the read found at the path
ReadTemplate(p) ==
    /\ pc[p] = "gen_tmpl"
    /\ loc' = [loc EXCEPT ![p].template = pupFile]
    /\ IF TemplateInvalid
       THEN Leave(p, "DataValidationError")
       ELSE Goto(p, "gen_vps") /\ UNCHANGED result
    /\ UNCHANGED <<remote, pupFile, vpsFile, tsFile, outId, files, backups,
                   request, response, booted, used,
                   repairVars, mergeVars, rotateVars, downloadVars>>

\* generate_output_csv: vpsdb = _read_vpsdb(vpsdb_json); json.load raises
\* json.JSONDecodeError on a file that is not JSON, before the array test
ReadVpsdb(p) ==
    /\ pc[p] = "gen_vps"
    /\ loc' = [loc EXCEPT ![p].vpsdata = vpsFile]
    /\ IF vpsFile.kind = "malformed"
       THEN Leave(p, "JSONDecodeError")
       ELSE IF VpsdbInvalid
       THEN Leave(p, "DataValidationError")
       ELSE Goto(p, "gen_open") /\ UNCHANGED result
    /\ UNCHANGED <<remote, pupFile, vpsFile, tsFile, outId, files, backups,
                   request, response, booted, used,
                   repairVars, mergeVars, rotateVars, downloadVars>>

\* a file id that no directory and no open handle uses
FreeId ==
    CHOOSE n \in 1..(Cardinality(DOMAIN files) + Cardinality(Threads) + 1) :
        /\ n \notin DOMAIN files
        /\ \A q \in Threads : loc[q].handle # n

\* _write_csv: path.open("w") creates the output file or empties it
OpenOutput(p) ==
    /\ pc[p] = "gen_open"
    /\ Goto(p, "gen_write")
    /\ IF outId = 0
       THEN /\ outId' = FreeId
            /\ files' = (FreeId :> <<>>) @@ files
       ELSE /\ outId' = outId
            /\ files' = [files EXCEPT ![outId] = <<>>]
    /\ loc' = [loc EXCEPT ![p].handle = outId', ![p].pos = 0, ![p].wrote = TRUE]
    /\ UNCHANGED <<remote, pupFile, vpsFile, tsFile, backups, result,
                   request, response, booted, used,
                   repairVars, mergeVars, rotateVars, downloadVars>>

\* the chunks of a file after chunk tag is written at offset pos
WriteAt(chunks, pos, tag) ==
    IF pos < Len(chunks) THEN [chunks EXCEPT ![pos + 1] = tag]
    ELSE chunks \o [i \in 1..(pos - Len(chunks)) |-> Hole] \o << tag >>

\* a backup that is written to becomes the most recently modified one
Touched(bk, id) ==
    IF id \in SeqRange(bk) THEN SelectSeq(bk, LAMBDA x : x # id) \o << id >> ELSE bk

\* _write_csv: w.writerows(rows), one flush of the buffer; the last one is
\* the close of the file, and generate_output_csv returns
WriteOutput(p) ==
    /\ pc[p] = "gen_write"
    /\ LET h == loc[p].handle
           tag == << loc[p].template.ver, loc[p].vpsdata.ver >>
       IN  IF h \in DOMAIN files
           THEN /\ files' = [files EXCEPT ![h] = WriteAt(files[h], loc[p].pos, tag)]
                /\ backups' = Touched(backups, h)
           ELSE UNCHANGED <<files, backups>>
    /\ IF loc[p].pos + 1 = OutChunks
       THEN /\ Leave(p, "created")
            /\ loc' = [loc EXCEPT ![p].handle = 0, ![p].pos = 0]
       ELSE /\ loc' = [loc EXCEPT ![p].pos = loc[p].pos + 1]
            /\ UNCHANGED <<pc, result>>
    /\ UNCHANGED <<remote, pupFile, vpsFile, tsFile, outId,
                   request, response, booted, used,
                   repairVars, mergeVars, rotateVars, downloadVars>>


----------------------------------------------------------------------------
(* The callers of run_sync_and_export, and what is outside the process     *)

\* create_app: the startup export runs when the output file is missing
StartupCheck ==
    /\ pc["startup"] = "boot"
    /\ IF outId = 0
       THEN /\ used' = [used EXCEPT !.triggers = @ + 1]
            /\ Enter("startup")
            /\ UNCHANGED booted
       ELSE /\ Goto("startup", "off")
            /\ booted' = TRUE
            /\ UNCHANGED <<loc, result, used>>
    /\ UNCHANGED <<remote, pupFile, vpsFile, tsFile, outId, files, backups,
                   request, response,
                   repairVars, mergeVars, rotateVars, downloadVars>>

\* create_app: the startup export returned or raised (logged); the app serves
StartupDone ==
    /\ pc["startup"] = "ret"
    /\ Goto("startup", "off")
    /\ Forget("startup")
    /\ booted' = TRUE
    /\ UNCHANGED <<remote, pupFile, vpsFile, tsFile, outId, files, backups,
                   request, response, used,
                   repairVars, mergeVars, rotateVars, downloadVars>>

\* the interval job fires; max_instances = 1 and coalesce drop a firing while
\* the job of an earlier firing still runs
SchedulerFires ==
    /\ pc[SCHEDULED_TRIGGER] = "idle"
    /\ used.triggers < MaxTriggers
    /\ used' = [used EXCEPT !.triggers = @ + 1]
    /\ Enter(SCHEDULED_TRIGGER)
    /\ UNCHANGED <<remote, pupFile, vpsFile, tsFile, outId, files, backups,
                   request, response, booted,
                   repairVars, mergeVars, rotateVars, downloadVars>>

\* _run_job_safely: the job returned, or raised and was logged
SchedulerDone ==
    /\ pc[SCHEDULED_TRIGGER] = "ret"
    /\ Goto(SCHEDULED_TRIGGER, "idle")
    /\ Forget(SCHEDULED_TRIGGER)
    /\ UNCHANGED <<remote, pupFile, vpsFile, tsFile, outId, files, backups,
                   request, response, booted, used,
                   repairVars, mergeVars, rotateVars, downloadVars>>

\* export(): a browser GET renders the page and runs nothing
ExportPage ==
    /\ booted
    /\ pc["manual"] = "idle"
    /\ used.triggers < MaxTriggers
    /\ used' = [used EXCEPT !.triggers = @ + 1]
    /\ Goto("manual", "sent")
    /\ response' = [status |-> 200, body |-> "page"]
    /\ UNCHANGED <<remote, pupFile, vpsFile, tsFile, outId, files, backups, loc,
                   result, request, booted,
                   repairVars, mergeVars, rotateVars, downloadVars>>

\* export(): a POST, or a GET with api=1, runs the job
ExportRun ==
    /\ booted
    /\ pc["manual"] = "idle"
    /\ used.triggers < MaxTriggers
    /\ used' = [used EXCEPT !.triggers = @ + 1]
    /\ \E api, download \in BOOLEAN : request' = [api |-> api, download |-> download]
    /\ Enter("manual")
    /\ UNCHANGED <<remote, pupFile, vpsFile, tsFile, outId, files, backups,
                   response, booted,
                   repairVars, mergeVars, rotateVars, downloadVars>>

\* a file that holds all the chunks of one merge
Complete(chunks) ==
    /\ Len(chunks) = OutChunks
    /\ \A i \in 1..Len(chunks) : chunks[i] = chunks[1] /\ chunks[i] # Hole

\* export(): the response for the way run_sync_and_export ended; file is
\* whether send_file finds the output file
Respond(req, how, file) ==
    CASE how = "created" ->
            IF req.download
            THEN (IF file THEN [status |-> 200, body |-> "file"]
                  ELSE IF req.api THEN [status |-> 500, body |-> "error_json"]
                  ELSE [status |-> 500, body |-> "page_error"])
            ELSE IF req.api THEN [status |-> 200, body |-> "created_json"]
            ELSE [status |-> 200, body |-> "page_success"]
      [] how = "NoUpdateError" ->
            IF req.api THEN [status |-> 204, body |-> "none"]
            ELSE [status |-> 200, body |-> "page_nothing"]
      [] how \in {"RemoteFetchError", "DataValidationError"} ->
            IF req.api THEN [status |-> 500, body |-> "error_json"]
            ELSE [status |-> 200, body |-> "page_error"]
      [] OTHER ->
            IF req.api THEN [status |-> 500, body |-> "error_json"]
            ELSE [status |-> 500, body |-> "page_error"]

\* export(): the try block after run_sync_and_export, and the except clauses
ExportDone ==
    /\ pc["manual"] = "ret"
    /\ Goto("manual", "sent")
    /\ response' = Respond(request, result["manual"], outId # 0)
    /\ UNCHANGED <<remote, pupFile, vpsFile, tsFile, outId, files, backups, loc, result,
                   request, booted, used,
                   repairVars, mergeVars, rotateVars, downloadVars>>

\* the response is delivered; the request and what export() held are gone
ExportEnd ==
    /\ pc["manual"] = "sent"
    /\ Goto("manual", "idle")
    /\ Forget("manual")
    /\ request' = NoRequest
    /\ response' = NoResponse
    /\ UNCHANGED <<remote, pupFile, vpsFile, tsFile, outId, files, backups,
                   booted, used,
                   repairVars, mergeVars, rotateVars, downloadVars>>

\* the remote site publishes a new data set
RemoteUpdate ==
    /\ remote.epoch < MaxEpoch
    /\ \E k \in RemoteKinds :
          remote' = [epoch |-> remote.epoch + 1, pup |-> k[1], vps |-> k[2]]
    /\ UNCHANGED <<pupFile, vpsFile, tsFile, outId, files, backups, pc, loc, result,
                   request, response, booted, used,
                   repairVars, mergeVars, rotateVars, downloadVars>>

\* somebody removes a file of data_dir
CacheFileRemoved ==
    /\ used.removals < MaxRemovals
    /\ used' = [used EXCEPT !.removals = @ + 1]
    /\ \/ pupFile.kind # "absent" /\ pupFile' = Absent /\ UNCHANGED <<vpsFile, tsFile>>
       \/ vpsFile.kind # "absent" /\ vpsFile' = Absent /\ UNCHANGED <<pupFile, tsFile>>
       \/ tsFile.kind # "absent" /\ tsFile' = NoTs /\ UNCHANGED <<pupFile, vpsFile>>
    /\ UNCHANGED <<remote, outId, files, backups, pc, loc, result,
                   request, response, booted,
                   repairVars, mergeVars, rotateVars, downloadVars>>

\* one step of run_sync_and_export in thread p
RunStep(p) ==
    \/ Ensure(p) \/ EnsureFetch(p) \/ FetchFails(p)
    \/ DownloadPup(p) \/ DownloadVps(p) \/ WritePup(p) \/ WriteVps(p)
    \/ TruncateTs(p) \/ WriteTs(p)
    \/ Check(p) \/ CheckFetch(p) \/ AfterSync(p)
    \/ ReadTemplate(p) \/ ReadVpsdb(p) \/ OpenOutput(p) \/ WriteOutput(p)

Next ==
    \/ StartupCheck \/ StartupDone \/ SchedulerFires \/ SchedulerDone
    \/ ExportPage \/ ExportRun \/ ExportDone \/ ExportEnd
    \/ RemoteUpdate \/ CacheFileRemoved
    \/ \E p \in Threads : RunStep(p)

Init == JobInit /\ RepairIdle /\ MergeIdle /\ RotateIdle /\ DownloadIdle

Spec == Init /\ [][Next]_vars


----------------------------------------------------------------------------
(* Claims about the service                                                *)

\* thread p is inside run_sync_and_export
Running(p) == pc[p] \notin {"boot", "off", "idle", "ret", "sent"}

\* thread p is inside generate_output_csv
Merging(p) == pc[p] \in {"gen_tmpl", "gen_vps", "gen_open", "gen_write"}

\* the ways generate_output_csv ends
MergeOutcomes == {"created", "DataValidationError", "JSONDecodeError"}

\* C3: at most one execution of run_sync_and_export is in progress at any
\* time, whatever the interleaving of timer firings, /export requests and the
\* startup export.
C3_OneRunAtATime ==
    \A p, q \in Threads : (Running(p) /\ Running(q)) => p = q

\* C4: whatever the trigger, a run is inside generate_output_csv only if its
\* sync found the cache stale: check_and_sync returned updated, or a missing
\* cache file made the run download the data set.
C4_MergeOnlyWhenStale ==
    \A p \in Threads : Merging(p) => (loc[p].updated \/ loc[p].stored)

\* C5: a run of run_sync_and_export whose merge raised has not written the
\* remote timestamp to lastUpdated.json.
C5_TimestampStoredAfterMerge ==
    \A p \in Threads :
        (pc[p] = "ret" /\ result[p] \in {"DataValidationError", "JSONDecodeError"})
            => ~loc[p].stored

\* C6: whenever the output file exists at the destination path, what a read
\* of it returns is a complete output: all the chunks of one merge.
C6_ReaderSeesCompleteOutput ==
    outId # 0 => Complete(files[outId])

\* C7: an /export?api=1 request whose run found the remote timestamp not
\* newer than the local one, with the cache complete, and ended without an
\* error, is answered 204.
C7_NoUpdateAnswered204 ==
    ( /\ pc["manual"] = "sent"
      /\ request.api
      /\ result["manual"] \in {"created", "skipped", "NoUpdateError"}
      /\ ~loc["manual"].updated
      /\ ~loc["manual"].stored )
        => response.status = 204

\* the lookup file that _read_template_rows found is absent or has no header
BadLookup(f) == f.kind \in {"absent", "noheader"}

\* the metadata file that _read_vpsdb found is absent or is not a JSON array
BadMetadata(f) == f.kind \in {"absent", "notarray", "malformed"}

\* C8: a generate_output_csv that found the lookup file absent or without a
\* header, or the metadata file absent or not a JSON array, ended with
\* DataValidationError and did not open the destination path for writing.
C8_BadInputFailsValidationWithoutWrite ==
    \A p \in Threads :
        ( /\ pc[p] = "ret"
          /\ result[p] \in MergeOutcomes
          /\ (BadLookup(loc[p].template) \/ BadMetadata(loc[p].vpsdata)) )
            => (result[p] = "DataValidationError" /\ ~loc[p].wrote)


----------------------------------------------------------------------------
(* Claims about the sync, the rotation and the download                    *)

cacheFiles == <<pupFile, vpsFile, tsFile>>

\* thread p takes the step from label a to label b
Step(p, a, b) == pc[p] = a /\ pc'[p] = b

\* the local timestamp, 0 when the file is absent or does not hold a number
LocalTimestamp == IF tsFile.kind = "num" THEN tsFile.val ELSE 0

\* a cached data file is missing
DataFileMissing == pupFile.kind = "absent" \/ vpsFile.kind = "absent"

\* C14: check_and_sync takes the local timestamp as 0 when the file is
\* absent or unreadable; it downloads if and only if the remote timestamp
\* is greater than the local one or a data file is missing, and then
\* replaces both data files with what it fetched, stores the remote
\* timestamp it read and returns updated = true; otherwise it returns
\* updated = false and none of its steps changes a cache file.
C14_CheckAndSyncUpdatesIffStale ==
    [][\A p \in Threads :
        /\ Step(p, "check", "check_fetch") =>
              /\ loc'[p].local_epoch = LocalTimestamp
              /\ UNCHANGED cacheFiles
        /\ Step(p, "check_fetch", "dl_pup") =>
              /\ remote.epoch > loc[p].local_epoch \/ DataFileMissing
              /\ loc'[p].remote_epoch = remote.epoch
              /\ UNCHANGED cacheFiles
        /\ Step(p, "check_fetch", "post") =>
              /\ ~(remote.epoch > loc[p].local_epoch \/ DataFileMissing)
              /\ ~loc'[p].updated
              /\ UNCHANGED cacheFiles
        /\ (pc'[p] = "post" /\ pc[p] # "post") => pc[p] \in {"check_fetch", "dl_wts2"}
        /\ (pc[p] = "dl_wts2" /\ pc'[p] # "dl_wts2" /\ loc[p].ret = "post") =>
              /\ pc'[p] = "post"
              /\ loc'[p].updated
              /\ tsFile' = [kind |-> "num", val |-> loc[p].remote_epoch]
        /\ (pc'[p] = "dl_wts2" /\ pc[p] # "dl_wts2") => pc[p] = "dl_wts"
        /\ (pc'[p] = "dl_wts" /\ pc[p] # "dl_wts") =>
              (pc[p] = "dl_wvps" /\ vpsFile' = loc[p].vpsdb_bytes
                 /\ vpsFile'.kind # "absent")
        /\ (pc'[p] = "dl_wvps" /\ pc[p] # "dl_wvps") =>
              (pc[p] = "dl_wpup" /\ pupFile' = loc[p].pup_bytes
                 /\ pupFile'.kind # "absent")
      ]_vars

\* check_and_sync has decided on a download although the remote timestamp
\* equals the local one, since a data file is missing
C14_Witness ==
    \E p \in Threads :
        /\ pc[p] = "dl_pup"
        /\ loc[p].ret = "post"
        /\ loc[p].remote_epoch = loc[p].local_epoch
        /\ loc[p].local_epoch > 0
        /\ DataFileMissing


\* C15: a run that opens the destination for writing finds no output file
\* there: a previous output has been moved into the backups by the run's
\* rotate_if_exists, so no run empties and rewrites an existing output file.
C15_OutputRotatedBeforeWrite ==
    [][\A p \in Threads : Step(p, "gen_open", "gen_write") => outId = 0]_vars


----------------------------------------------------------------------------
(* The fold of the extra fields, under SpecRepair                          *)

\* the row after the split-manufacturer step
AfterCaseA == RepairCaseA(rawRow)

\* extras[:-1], the extras before the last one
RemainingExtras == SubSeq(AfterCaseA, NumBase + 1, Len(AfterCaseA) - 1)

\* cand = extras[-1].strip()
Cand == Strip(AfterCaseA[Len(AfterCaseA)])

\* what the tags field is made of: the existing tags, the previous index-16
\* content when it is not empty and not an identifier, the remaining extras
\* in their order; every piece trimmed, an empty piece adds nothing
TagPieces ==
    LET old16 == Strip(AfterCaseA[17])
        all == << Strip(AfterCaseA[16]) >>
               \o (IF old16 # <<>> /\ ~VPS_ID_RE(old16) THEN << old16 >> ELSE <<>>)
               \o [i \in 1..Len(RemainingExtras) |-> Strip(RemainingExtras[i])]
    IN  SelectSeq(all, LAMBDA t : t # <<>>)

\* C16: for a row that has more than 17 fields after the split-manufacturer
\* step: when the trimmed last extra matches the identifier pattern, the
\* returned row keeps fields 0..14, has the trimmed last extra at index 16
\* and at index 15 the space-joined existing tags, previous index-16 content
\* (when not empty and not an identifier) and remaining extras in their
\* order; otherwise the row is rejected.
C16_ExtrasFoldedIntoTags ==
    (repairPc = "ret" /\ Len(AfterCaseA) > NumBase) =>
        IF VPS_ID_RE(Cand)
        THEN /\ fixed # <<>>
             /\ Len(fixed[1]) = NumBase
             /\ \A i \in 1..15 : fixed[1][i] = AfterCaseA[i]
             /\ fixed[1][17] = Cand
             /\ fixed[1][16] = Join(<<" ">>, TagPieces)
        ELSE fixed = <<>>

\* a row with three extras was repaired: tags, a previous index-16 content
\* that is not an identifier, and two different remaining extras were joined
C16_Witness ==
    /\ repairPc = "ret"
    /\ Len(rawRow) = NumBase + 3
    /\ rawRow[16] = TxtTag
    /\ rawRow[17] = TxtShort
    /\ rawRow[18] = TxtShort
    /\ rawRow[19] = TxtTag
    /\ fixed # <<>>
    /\ fixed[1][16] = TxtTag \o <<" ">> \o TxtShort \o <<" ">> \o TxtShort
                          \o <<" ">> \o TxtTag


----------------------------------------------------------------------------
(* BackupService on its own: an output file that is written and rotated,   *)
(* under SpecRotate                                                        *)

MaxSecond == 2
MaxMtime == 4

\* the values of settings.max_backups
Limits == {-1, 0, 1, 2}

\* sorted(..., key=st_mtime) with the oldest file first
RECURSIVE OldestFirst(_, _)
OldestFirst(dir, names) ==
    IF names = {} THEN <<>>
    ELSE LET n == CHOOSE n \in names : \A k \in names : dir[n] <= dir[k]
         IN  << n >> \o OldestFirst(dir, names \ {n})

\* sorted(backups_dir.glob(...), key=lambda p: p.stat().st_mtime, reverse=True)
RECURSIVE NewestFirst(_, _)
NewestFirst(dir, names) ==
    IF names = {} THEN <<>>
    ELSE LET n == CHOOSE n \in names : \A k \in names : dir[k] <= dir[n]
         IN  << n >> \o NewestFirst(dir, names \ {n})

\* backups[self.max_backups:], the names that prune_old_backups unlinks
PruneSlice(dir, n) ==
    IF n <= 0 THEN {}
    ELSE LET sorted == NewestFirst(dir, DOMAIN dir)
         IN  { sorted[i] : i \in (n + 1)..Len(sorted) }

RotateInit ==
    /\ limit \in Limits
    /\ output_mtime = 0
    /\ backups_dir = << >>
    /\ clock_s = 0
    /\ clock_m = 0
    /\ rotatePc = "idle"
    /\ pruneLog = {}

\* _write_csv writes the output file
WriteOutputFile ==
    /\ rotatePc = "idle"
    /\ clock_m < MaxMtime
    /\ clock_m' = clock_m + 1
    /\ output_mtime' = clock_m + 1
    /\ UNCHANGED <<backups_dir, limit, clock_s, rotatePc, pruneLog,
                   repairVars, mergeVars, jobVars, downloadVars>>

\* a _write_csv that opened the output before it was rotated writes to the
\* file, which is a backup by now
WriteBackupFile ==
    /\ rotatePc = "idle"
    /\ clock_m < MaxMtime
    /\ \E f \in DOMAIN backups_dir :
          backups_dir' = [backups_dir EXCEPT ![f] = clock_m + 1]
    /\ clock_m' = clock_m + 1
    /\ UNCHANGED <<output_mtime, limit, clock_s, rotatePc, pruneLog,
                   repairVars, mergeVars, jobVars, downloadVars>>

\* the wall clock reaches the next second
SecondPasses ==
    /\ clock_s < MaxSecond
    /\ clock_s' = clock_s + 1
    /\ UNCHANGED <<output_mtime, backups_dir, limit, clock_m, rotatePc, pruneLog,
                   repairVars, mergeVars, jobVars, downloadVars>>

\* rotate_if_exists up to shutil.move: the name carries the second, the
\* file keeps its st_mtime, a backup of the same name is replaced
RotateMove ==
    /\ rotatePc = "idle"
    /\ IF output_mtime = 0
       THEN UNCHANGED <<output_mtime, backups_dir, rotatePc, pruneLog>>
       ELSE /\ backups_dir' = (clock_s :> output_mtime) @@ backups_dir
            /\ output_mtime' = 0
            /\ rotatePc' = "moved"
            /\ pruneLog' = {}
    /\ UNCHANGED <<limit, clock_s, clock_m, repairVars, mergeVars, jobVars, downloadVars>>

\* prune_old_backups
RotatePrune ==
    /\ rotatePc = "moved"
    /\ LET gone == PruneSlice(backups_dir, limit)
       IN  /\ backups_dir' = [f \in (DOMAIN backups_dir) \ gone |-> backups_dir[f]]
           /\ pruneLog' = gone
    /\ rotatePc' = "idle"
    /\ UNCHANGED <<output_mtime, limit, clock_s, clock_m,
                   repairVars, mergeVars, jobVars, downloadVars>>

RotateNext ==
    \/ WriteOutputFile
    \/ WriteBackupFile
    \/ SecondPasses
    \/ RotateMove
    \/ RotatePrune

InitRotate == RotateInit /\ RepairIdle /\ MergeIdle /\ JobIdle /\ DownloadIdle

SpecRotate == InitRotate /\ [][RotateNext]_vars

----------------------------------------------------------------------------
(* SyncService._download_all on its own, one call after the other, every   *)
(* step of which may fail, under SpecDownload                              *)

MaxCalls == 3

\* the values of remote_epoch_ms that a call is given
Epochs == 1..MaxEpoch

\* no call is in progress: none was made, or the last one returned or raised
Quiet == dlCall.at \in {"none", "returned", "RemoteFetchError", "OSError"}

\* the timestamp file after write_text
Stamped(val, by) == [kind |-> "num", val |-> val, by |-> by]

DownloadInit ==
    /\ cache = EmptyCache
    /\ dlCall = [id |-> 0, at |-> "none", remote_epoch_ms |-> 0, before |-> EmptyCache]

\* _download_all(remote_epoch_ms) is called
DownloadAll ==
    /\ Quiet
    /\ dlCall.id < MaxCalls
    /\ \E e \in Epochs :
          dlCall' = [id |-> dlCall.id + 1, at |-> "fetch_pup", remote_epoch_ms |-> e,
                     before |-> cache]
    /\ UNCHANGED <<cache, repairVars, mergeVars, jobVars, rotateVars>>

\* pup_bytes = self.client.fetch_puplookup_csv_bytes()
FetchPup ==
    /\ dlCall.at = "fetch_pup"
    /\ dlCall' = [dlCall EXCEPT !.at = "fetch_vps"]
    /\ UNCHANGED <<cache, repairVars, mergeVars, jobVars, rotateVars>>

\* vpsdb_bytes = self.client.fetch_vpsdb_json_bytes()
FetchVps ==
    /\ dlCall.at = "fetch_vps"
    /\ dlCall' = [dlCall EXCEPT !.at = "write_pup"]
    /\ UNCHANGED <<cache, repairVars, mergeVars, jobVars, rotateVars>>

\* get_bytes raises RemoteFetchError
FetchRaises ==
    /\ dlCall.at \in {"fetch_pup", "fetch_vps"}
    /\ dlCall' = [dlCall EXCEPT !.at = "RemoteFetchError"]
    /\ UNCHANGED <<cache, repairVars, mergeVars, jobVars, rotateVars>>

\* atomic_write_bytes(puplookup.csv, pup_bytes)
AtomicWritePup ==
    /\ dlCall.at = "write_pup"
    /\ cache' = [cache EXCEPT !.pup = dlCall.id]
    /\ dlCall' = [dlCall EXCEPT !.at = "write_vps"]
    /\ UNCHANGED <<repairVars, mergeVars, jobVars, rotateVars>>

\* atomic_write_bytes(vpsdb.json, vpsdb_bytes)
AtomicWriteVps ==
    /\ dlCall.at = "write_vps"
    /\ cache' = [cache EXCEPT !.vps = dlCall.id]
    /\ dlCall' = [dlCall EXCEPT !.at = "write_ts"]
    /\ UNCHANGED <<repairVars, mergeVars, jobVars, rotateVars>>

\* write_text(lastUpdated.json, ...): Path.write_text opens the file, which
\* empties it
OpenTimestamp ==
    /\ dlCall.at = "write_ts"
    /\ cache' = [cache EXCEPT !.ts = [kind |-> "empty", val |-> 0, by |-> 0]]
    /\ dlCall' = [dlCall EXCEPT !.at = "write_ts2"]
    /\ UNCHANGED <<repairVars, mergeVars, jobVars, rotateVars>>

\* write_text writes str(remote_epoch_ms), and _download_all returns
WriteTimestamp ==
    /\ dlCall.at = "write_ts2"
    /\ cache' = [cache EXCEPT !.ts = Stamped(dlCall.remote_epoch_ms, dlCall.id)]
    /\ dlCall' = [dlCall EXCEPT !.at = "returned"]
    /\ UNCHANGED <<repairVars, mergeVars, jobVars, rotateVars>>

\* tmp.write_bytes, os.replace, or the open or the write of write_text
\* raises OSError: the file at the path stays as it is
WriteRaises ==
    /\ dlCall.at \in {"write_pup", "write_vps", "write_ts", "write_ts2"}
    /\ dlCall' = [dlCall EXCEPT !.at = "OSError"]
    /\ UNCHANGED <<cache, repairVars, mergeVars, jobVars, rotateVars>>

DownloadNext ==
    \/ DownloadAll
    \/ FetchPup
    \/ FetchVps
    \/ FetchRaises
    \/ AtomicWritePup
    \/ AtomicWriteVps
    \/ OpenTimestamp
    \/ WriteTimestamp
    \/ WriteRaises

InitDownload == DownloadInit /\ RepairIdle /\ MergeIdle /\ JobIdle /\ RotateIdle

SpecDownload == InitDownload /\ [][DownloadNext]_vars

\* C18: a call of _download_all that ends with a failed fetch has modified
\* none of the three cache files; and while no call is in progress, a
\* timestamp file that holds the value written by a call stands beside the
\* two data files fetched by that same call.
C18_CacheOfOneDownload ==
    /\ dlCall.at = "RemoteFetchError" => cache = dlCall.before
    /\ (Quiet /\ cache.ts.kind = "num") =>
          (cache.pup = cache.ts.by /\ cache.vps = cache.ts.by)


----------------------------------------------------------------------------
(* The scheduled run after a download by ensure_local_cache, under Spec    *)

\* the output file holds the merge of the data files that are in the cache
OutputOfCache ==
    /\ outId # 0
    /\ Complete(files[outId])
    /\ files[outId][1] = << pupFile.ver, vpsFile.ver >>

\* C19: a scheduled run that downloaded a fresh data set, since a cached
\* file was missing, regenerates the output in the same run: it does not
\* end with the export skipped while the output is not the merge of the
\* downloaded data.
C19_DownloadedDataIsExported ==
    ( /\ pc[SCHEDULED_TRIGGER] = "ret"
      /\ result[SCHEDULED_TRIGGER] = "skipped"
      /\ loc[SCHEDULED_TRIGGER].stored )
        => OutputOfCache


====
